---- MODULE Spec2Model ----
(***************************************************************************)
(* A model of the ACCEPT driver: the command-line layer of                 *)
(* accept/commands.py, the memoizing dispatch client it drives, the        *)
(* sandboxed build of log_and_output, the JSON report merge of `exp`, and  *)
(* the output scorer of apps/ccv/eval.py.                                   *)
(*                                                                         *)
(* Numbers of the scorer are kept in hundredths (1.02 is 102), and a score *)
(* is kept as the pair numerator/denominator.  The scorer computes in      *)
(* binary floating point: where the decimal quotient ties with the         *)
(* tolerance, the computed quotient may lie just below, on, or just above  *)
(* it, and the model keeps all three outcomes (field rnd).                 *)
(***************************************************************************)
EXTENDS Integers, Sequences, FiniteSets, TLC

VARIABLES
    \* ---- apps/ccv/eval.py: one scoring of a relaxed output
    orig,       \* the baseline's outputs
    relaxed,    \* the approximate configuration's outputs
    tol,        \* the tolerance T
    scored,     \* what score() returned: NotScored, ZeroDivision or a quotient
    desc,       \* the descriptor the classification gave, "" before it
    \* ---- accept/commands.py: one run of the driver after another
    opts,       \* the global options given on the command line of the current run
    cfg,        \* ctx.obj, the GlobalConfig that cli() stored
    pc,         \* where the current run is: "idle" between runs, "cli", "body", ...
    cmd,        \* the command of the current run
    epoch,      \* the number of runs started so far
    \* ---- the memo client (accept/cwmemo.py) behind ctx.obj.client
    memo,       \* the Memo Store: fingerprint -> None or Some(result); outlives a run
    scope,      \* TRUE while the client scope is acquired (inside `with client:`)
    inflight,   \* fingerprint -> the computation submitted and not yet retrieved
    invocations,\* fingerprint -> how often the underlying callable was invoked
    hist,       \* the submit and get calls made so far, in order
    \* ---- log_and_output and the Sandbox Manager (accept/core.py)
    cwd,        \* the process's working directory
    tmpdirs,    \* the numbers of the temporary sandbox directories that exist
    created,    \* how many sandbox directories were created so far
    lao,        \* the current call of log_and_output
    \* ---- exp --json and the report file results.json
    report,     \* the report file: absent, or benchmark name -> {key -> value}
    lastExp     \* the latest invocation of exp: its inputs and the report before it

scoreVars == <<orig, relaxed, tol, scored, desc>>
cliVars == <<opts, cfg, pc, cmd, epoch>>
memoVars == <<memo, scope, inflight, invocations, hist>>
sandboxVars == <<cwd, tmpdirs, created, lao>>
reportVars == <<report, lastExp>>

vars == <<scoreVars, cliVars, memoVars, sandboxVars, reportVars>>

\* ------------------------------------------------------------------------
\* Bounds of the model
\* ------------------------------------------------------------------------
MaxLen == 3
\* The largest replication factor given on the command line.
MaxReps == 3
\* The number of runs of the driver.
MaxRuns == 2
\* The number of submit and get calls over all runs.
MaxOps == 4
\* The number of distinct values a job may return.
NumResults == 2
\* The number of calls of log_and_output.
MaxBuilds == 3
\* The number of DIR arguments of one exp invocation.
MaxAppDirs == 2

\* ------------------------------------------------------------------------
\* General helpers
\* ------------------------------------------------------------------------
SeqsUpTo(S, n) == UNION {[1..k -> S] : k \in 0..n}

Abs(x) == IF x < 0 THEN -x ELSE x

Min(a, b) == IF a <= b THEN a ELSE b

\* ========================================================================
\* apps/ccv/eval.py
\* ========================================================================
\* The literal 1.0 of min(abs(a - b), 1.0), in hundredths.
CapHundredths == 100

OrigVals == {100, 0}
RelaxedVals == {5, 100, 80, 98, 101, 102, 110, 120}
Tols == {5}

\* What score() gave: nothing yet, a ZeroDivisionError, or the quotient num/den.
\* rnd is the sign of (computed quotient - tolerance) left by rounding when the
\* decimal values tie, 0 otherwise.
NotScored == [st |-> "none", num |-> 0, den |-> 1, rnd |-> 0]
ZeroDivision == [st |-> "ZeroDivisionError", num |-> 0, den |-> 1, rnd |-> 0]

\* zip(orig, relaxed): the pairs up to the shorter length.
Zip(a, b) == [i \in 1..Min(Len(a), Len(b)) |-> <<a[i], b[i]>>]

\* The term with the abs() left out: min(a - b, 1.0).
TermNoAbs(a, b) == Min(a - b, CapHundredths)

\* One iteration's term of the loop: min(abs(a - b), 1.0).
Term(a, b) == Min(Abs(a - b), CapHundredths)

\* The loop of score(): total over the zipped pairs.
RECURSIVE SumTerms(_)
SumTerms(ps) ==
    IF Len(ps) = 0 THEN 0
    ELSE SumTerms(SubSeq(ps, 1, Len(ps) - 1)) + Term(ps[Len(ps)][1], ps[Len(ps)][2])

\* score(orig, relaxed): total / len(orig), a ZeroDivisionError for an empty orig.
score(o, r) ==
    IF Len(o) = 0 THEN ZeroDivision
    ELSE [st |-> "ok", num |-> SumTerms(Zip(o, r)), den |-> Len(o), rnd |-> 0]

\* The outcomes of the floating-point evaluation against tolerance t: exact away
\* from a tie and when every term is 0; at a tie of the decimal values the computed
\* quotient is below, on or above the tolerance.
Roundings(s, t) ==
    IF s.st = "ok" /\ s.num = t * s.den /\ s.num # 0 THEN {-1, 0, 1} ELSE {0}

\* The Evaluator's rule: deviation <= T is good, otherwise bad
\* (num/den <= t, with the division multiplied out).
Classify(s, t) ==
    IF s.num < t * s.den \/ (s.num = t * s.den /\ s.rnd <= 0) THEN "good" ELSE "bad"

ScoreIdle ==
    /\ orig = <<>>
    /\ relaxed = <<>>
    /\ tol = 0
    /\ scored = NotScored
    /\ desc = ""

ScoreInit ==
    /\ orig \in SeqsUpTo(OrigVals, MaxLen)
    /\ relaxed \in SeqsUpTo(RelaxedVals, MaxLen)
    /\ tol \in Tols
    /\ scored = NotScored
    /\ desc = ""

\* The Evaluator scores a configuration's outputs against the baseline's.
ScoreStep ==
    /\ scored.st = "none"
    /\ \E rnd \in Roundings(score(orig, relaxed), tol) :
            scored' = [score(orig, relaxed) EXCEPT !.rnd = rnd]
    /\ UNCHANGED <<orig, relaxed, tol, desc>>
    /\ UNCHANGED <<cliVars, memoVars, sandboxVars, reportVars>>

\* ... and classifies it, when the scorer returned a value.
ClassifyStep ==
    /\ scored.st = "ok"
    /\ desc = ""
    /\ desc' = Classify(scored, tol)
    /\ UNCHANGED <<orig, relaxed, tol, scored>>
    /\ UNCHANGED <<cliVars, memoVars, sandboxVars, reportVars>>

\* ========================================================================
\* accept/commands.py: cli()
\* ========================================================================
\* An option that was not given is None; a given integer v is Some(v).
None == <<>>
Some(v) == <<v>>

\* type=int: any integer may be given, negative ones and 0 included.
RepsVals == (0 - 1)..MaxReps
TestRepsVals == {None} \cup {Some(v) : v \in RepsVals}

NoOpts ==
    [given |-> FALSE, cluster |-> FALSE, force |-> FALSE, reps |-> 1,
     test_reps |-> None, keep_sandboxes |-> FALSE]

NoCfg ==
    [set |-> FALSE, client |-> [cluster |-> FALSE, force |-> FALSE], reps |-> 1,
     test_reps |-> 1, keep_sandboxes |-> FALSE]

\* Python's truth value of the test_reps option: None and 0 are false.
Truthy(o) == o # None /\ o[1] # 0

\* A client built with the flag negated, and one built without the flag.
GetClientForceInverted(cluster, force) == [cluster |-> cluster, force |-> ~force]
GetClientForceDropped(cluster, force) == [cluster |-> cluster, force |-> FALSE]

\* cwmemo.get_client(cluster=cluster, force=force)
GetClient(cluster, force) == [cluster |-> cluster, force |-> force]

\* test_reps = test_reps or reps
TestRepsOrReps(test_reps, reps) == IF Truthy(test_reps) THEN test_reps[1] ELSE reps

\* cli(): builds the client, settles the testing replication and stores the
\* GlobalConfig; the command of the run follows.
Cli(cluster, force, reps, test_reps, keep_sandboxes) ==
    /\ pc = "idle"
    /\ epoch < MaxRuns
    /\ opts' = [given |-> TRUE, cluster |-> cluster, force |-> force, reps |-> reps,
                test_reps |-> test_reps, keep_sandboxes |-> keep_sandboxes]
    /\ cfg' = [set |-> TRUE, client |-> GetClient(cluster, force), reps |-> reps,
               test_reps |-> TestRepsOrReps(test_reps, reps),
               keep_sandboxes |-> keep_sandboxes]
    /\ pc' = "cli"
    /\ cmd' = ""
    /\ epoch' = epoch + 1

CliIdle ==
    /\ opts = NoOpts
    /\ cfg = NoCfg
    /\ pc = "idle"
    /\ cmd = ""
    /\ epoch = 0

\* The run ends after cli() alone (a command that dispatches nothing).
EndRun ==
    /\ pc = "cli"
    /\ pc' = "idle"
    /\ UNCHANGED <<opts, cfg, cmd, epoch>>

\* ========================================================================
\* The memo client: Job Fingerprinter, Memo Store, Dispatch Backend, and the
\* submit/get protocol with its scoped lifecycle
\* ========================================================================
AppDirs == {"app"}
KeepKw == {"unset", "False", "True"}

\* A job: the callable, its positional argument, and the keep= keyword argument
\* as passed ("unset" when the call does not pass it).
LogJobs == [func : {"log_and_output"}, dir : AppDirs, keep : KeepKw]
\* The Evaluator's job followed here: the timed execution of a configuration.
EvalJobs == [func : {"execute"}, dir : AppDirs, keep : {"unset"}]
Jobs == LogJobs \cup EvalJobs

Results == 1..NumResults

\* The Fingerprint of a job: determined by the callable identity and every argument
\* value, keyword arguments included; distinct jobs have distinct fingerprints.
Fingerprint(j) == <<j.func, j.dir, j.keep>>
Fingerprints == {Fingerprint(j) : j \in Jobs}

NotInFlight == [st |-> "none", res |-> 0, att |-> 0]

\* lookup(fingerprint): force mode makes every lookup behave as absent.
Lookup(fp) == IF cfg.client.force THEN None ELSE memo[fp]

Event(op, j, res, inv) ==
    [op |-> op, job |-> j, res |-> res, inv |-> inv, force |-> opts.force,
     epoch |-> epoch, scoped |-> scope, cmd |-> cmd]

\* A backend that queues a computation for every submit, attaching none.
BackendSubmitNoAttach(fp) ==
    /\ inflight' = [inflight EXCEPT ![fp] = [st |-> "pending", res |-> 0, att |-> 1]]
    /\ UNCHANGED invocations

\* The Dispatch Backend's submit: a later submitter attaches to the computation in
\* flight; otherwise the job is queued, or (local backend) executed on the spot.
\* A computation is in flight from its first submit until as many gets as submits
\* have retrieved it (att counts the submits not yet matched by a get).
BackendSubmit(fp) ==
    IF inflight[fp].st # "none"
    THEN /\ inflight' = [inflight EXCEPT ![fp].att = @ + 1]
         /\ UNCHANGED invocations
    ELSE \/ /\ inflight' = [inflight EXCEPT ![fp] = [st |-> "pending", res |-> 0, att |-> 1]]
            /\ UNCHANGED invocations
         \/ /\ ~cfg.client.cluster
            /\ \E r \in Results :
                 inflight' = [inflight EXCEPT ![fp] = [st |-> "done", res |-> r, att |-> 1]]
            /\ invocations' = [invocations EXCEPT ![fp] = @ + 1]

\* client.submit(callable, *args, **kwargs)
ClientSubmit(j) ==
    LET fp == Fingerprint(j) IN
    /\ Len(hist) < MaxOps
    /\ IF Lookup(fp) # None
       THEN UNCHANGED <<inflight, invocations>>
       ELSE BackendSubmit(fp)
    /\ hist' = Append(hist, Event("submit", j, 0, invocations[fp]))
    /\ UNCHANGED <<memo, scope>>

\* client.get(callable, *args, **kwargs): the cached result when the store has one;
\* the result of the computation in flight once it completed, inserted into the
\* store; with nothing in flight, submit followed by get on the spot.
ClientGet(j) ==
    LET fp == Fingerprint(j) IN
    /\ Len(hist) < MaxOps
    /\ IF Lookup(fp) # None
       THEN /\ hist' = Append(hist, Event("get", j, Lookup(fp)[1], invocations[fp]))
            /\ UNCHANGED <<memo, inflight, invocations>>
       ELSE IF inflight[fp].st = "none"
       THEN \E r \in Results :
            /\ invocations' = [invocations EXCEPT ![fp] = @ + 1]
            /\ memo' = [memo EXCEPT ![fp] = Some(r)]
            /\ hist' = Append(hist, Event("get", j, r, invocations[fp] + 1))
            /\ UNCHANGED inflight
       ELSE /\ inflight[fp].st = "done"
            /\ memo' = [memo EXCEPT ![fp] = Some(inflight[fp].res)]
            /\ inflight' = [inflight EXCEPT ![fp] =
                    IF @.att <= 1 THEN NotInFlight ELSE [@ EXCEPT !.att = @ - 1]]
            /\ hist' = Append(hist, Event("get", j, inflight[fp].res, invocations[fp]))
            /\ UNCHANGED invocations
    /\ UNCHANGED scope

\* A worker (pool thread or cluster node) executes a queued job.
Execute(fp) ==
    /\ inflight[fp].st = "pending"
    /\ \E r \in Results : inflight' = [inflight EXCEPT ![fp] = [@ EXCEPT !.st = "done", !.res = r]]
    /\ invocations' = [invocations EXCEPT ![fp] = @ + 1]
    /\ UNCHANGED <<memo, scope, hist>>

\* The backend is torn down: every job still queued is awaited (it executes) or
\* abandoned, and nothing stays in flight.
Teardown ==
    \E awaited \in SUBSET {fp \in Fingerprints : inflight[fp].st = "pending"} :
        /\ invocations' = [fp \in Fingerprints |->
                IF fp \in awaited THEN invocations[fp] + 1 ELSE invocations[fp]]
        /\ inflight' = [fp \in Fingerprints |-> NotInFlight]

MemoIdle ==
    /\ memo = [fp \in Fingerprints |-> None]
    /\ scope = FALSE
    /\ inflight = [fp \in Fingerprints |-> NotInFlight]
    /\ invocations = [fp \in Fingerprints |-> 0]
    /\ hist = <<>>

\* ========================================================================
\* accept/commands.py: the commands
\* ========================================================================
\* The keyword argument keep=ctx.obj.keep_sandboxes as it enters the job.
KeepArg(keep_sandboxes) == IF keep_sandboxes THEN "True" ELSE "False"

\* build: client.submit(log_and_output, appdir, keep=ctx.obj.keep_sandboxes)
BuildSubmitJob(appdir, keep_sandboxes) ==
    [func |-> "log_and_output", dir |-> appdir, keep |-> KeepArg(keep_sandboxes)]
\* build: client.get(log_and_output, appdir)
BuildGetJob(appdir) == [func |-> "log_and_output", dir |-> appdir, keep |-> "unset"]
\* log: client.submit(log_and_output, appdir, keep=ctx.obj.keep_sandboxes)
LogSubmitJob(appdir, keep_sandboxes) ==
    [func |-> "log_and_output", dir |-> appdir, keep |-> KeepArg(keep_sandboxes)]
\* log: client.get(log_and_output, appdir)
LogGetJob(appdir) == [func |-> "log_and_output", dir |-> appdir, keep |-> "unset"]

\* The commands whose body is `with ctx.obj.client:` around the Evaluator's work.
EvalCmds == {"run", "precise", "approx"}
\* The commands that submit and get log_and_output themselves.
LogCmds == {"build", "log"}

\* `with ctx.obj.client:` is entered by run, log, build, precise and approx.
CmdEnter(c) ==
    /\ pc = "cli"
    /\ pc' = "body"
    /\ cmd' = c
    /\ scope' = TRUE
    /\ UNCHANGED <<opts, cfg, epoch, memo, inflight, invocations, hist>>

\* exp calls experiments.evaluate for each appdir without entering the client.
ExpStart ==
    /\ pc = "cli"
    /\ pc' = "body"
    /\ cmd' = "exp"
    /\ UNCHANGED <<opts, cfg, epoch, memoVars>>

\* build and log: the submit call.
LogCmdSubmit ==
    /\ pc = "body"
    /\ cmd \in LogCmds
    /\ \E appdir \in AppDirs :
         ClientSubmit(IF cmd = "build" THEN BuildSubmitJob(appdir, cfg.keep_sandboxes)
                      ELSE LogSubmitJob(appdir, cfg.keep_sandboxes))
    /\ pc' = "submitted"
    /\ UNCHANGED <<opts, cfg, cmd, epoch>>

\* build and log: the get call.
LogCmdGet ==
    /\ pc = "submitted"
    /\ cmd \in LogCmds
    /\ \E appdir \in AppDirs :
         ClientGet(IF cmd = "build" THEN BuildGetJob(appdir) ELSE LogGetJob(appdir))
    /\ pc' = "got"
    /\ UNCHANGED <<opts, cfg, cmd, epoch>>

\* The Evaluator (exp.run(), ev.setup(), ev.precise_times(), experiments.evaluate)
\* issues a submit ...
EvalSubmit(j) ==
    /\ pc = "body"
    /\ cmd \in EvalCmds \cup {"exp"}
    /\ ClientSubmit(j)
    /\ UNCHANGED cliVars

\* ... or collects a result.
EvalGet(j) ==
    /\ pc = "body"
    /\ cmd \in EvalCmds \cup {"exp"}
    /\ ClientGet(j)
    /\ UNCHANGED cliVars

\* The `with` block is left, its body finished or raised: the client is released.
CmdExit ==
    /\ \/ pc \in {"body", "submitted", "got"} /\ cmd \in LogCmds
       \/ pc = "body" /\ cmd \in EvalCmds
    /\ Teardown
    /\ scope' = FALSE
    /\ pc' = "idle"
    /\ UNCHANGED <<opts, cfg, cmd, epoch, memo, hist>>

\* exp ends (or raises): the process exits, and nothing releases the client.
ExpEnd ==
    /\ pc = "body"
    /\ cmd = "exp"
    /\ Teardown
    /\ pc' = "idle"
    /\ UNCHANGED <<opts, cfg, cmd, epoch, memo, scope, hist>>

\* ========================================================================
\* accept/commands.py: log_and_output, inside core.chdir and core.sandbox
\* ========================================================================
\* A directory: a named one, or the n-th temporary sandbox directory.
Dir(name) == [name |-> name, n |-> 0]
Tmp(n) == [name |-> "tmp", n |-> n]

WorkDirs == {Dir("home"), Dir("app")}
\* The directories a caller may name: one that exists and one that does not.
CallDirs == {Dir("app"), Dir("missing")}
Outputs == {"ok", "failed"}
LogTexts == {"", "notes"}

LaoIdle ==
    [pc |-> "idle", directory |-> Dir("app"), keep |-> FALSE, before |-> Dir("home"),
     chdirPrev |-> Dir("home"), sbPrev |-> Dir("home"), sb |-> 0, fn |-> FALSE,
     written |-> "", output |-> "", log |-> ""]

\* A sandbox entered with retention whatever keep is.
SandboxRetainAlways(keep) == TRUE

\* core.sandbox(True, keep): the retention flag handed to the Sandbox Manager.
SandboxRetain(keep) == keep

\* Sandbox Manager, exit(): the directories left once the scope of sandbox n ends.
SandboxExit(dirs, n, retain) == IF retain THEN dirs ELSE dirs \ {n}

\* log_and_output is called: core.chdir(directory) switches to the directory, and
\* core.sandbox creates a fresh temporary directory and switches into it.  A
\* directory that does not exist makes chdir raise before anything is switched.
\* stale: whether a log file of an earlier build is seen inside the sandbox.
LaoEnter(directory, keep, stale) ==
    /\ lao.pc = "idle"
    /\ created < MaxBuilds
    /\ IF directory = Dir("missing")
       THEN /\ lao' = [LaoIdle EXCEPT !.pc = "raised", !.directory = directory,
                            !.keep = keep, !.before = cwd]
            /\ UNCHANGED <<cwd, tmpdirs, created>>
       ELSE /\ created' = created + 1
            /\ tmpdirs' = tmpdirs \cup {created + 1}
            /\ cwd' = Tmp(created + 1)
            /\ lao' = [LaoIdle EXCEPT !.pc = "entered", !.directory = directory,
                            !.keep = keep, !.before = cwd, !.chdirPrev = cwd,
                            !.sbPrev = directory, !.sb = created + 1, !.fn = stale]

\* Both scopes are left, innermost first: the sandbox switches back to where it was
\* entered and deletes its directory unless retained, chdir switches back to the
\* directory that was current before it.
LaoLeave ==
    /\ tmpdirs' = SandboxExit(tmpdirs, lao.sb, SandboxRetain(lao.keep))
    /\ cwd' = lao.chdirPrev
    /\ UNCHANGED created

\* if os.path.exists(fn): os.remove(fn)
LaoRemoveLog ==
    /\ lao.pc = "entered"
    /\ lao' = [lao EXCEPT !.pc = "cleaned", !.fn = FALSE]
    /\ UNCHANGED <<cwd, tmpdirs, created>>

\* output = core.build(require=False): the build ran, wrote a log file or not, and
\* reported success or failure in its output.
LaoBuild(output, text) ==
    /\ lao.pc = "cleaned"
    /\ lao' = [lao EXCEPT !.pc = "built", !.output = output,
                           !.fn = (text # ""), !.written = text]
    /\ UNCHANGED <<cwd, tmpdirs, created>>

\* core.build raises (a missing toolchain): the exception leaves both scopes.
LaoBuildRaises ==
    /\ lao.pc = "cleaned"
    /\ lao' = [lao EXCEPT !.pc = "raised"]
    /\ LaoLeave

\* The log file is read if it exists, and (log, output) is returned.
LaoReturn ==
    /\ lao.pc = "built"
    /\ lao' = [lao EXCEPT !.pc = "returned",
                           !.log = IF lao.fn THEN lao.written ELSE ""]
    /\ LaoLeave

\* The caller goes on; log_and_output may be called again.
LaoDone ==
    /\ lao.pc \in {"returned", "raised"}
    /\ lao' = LaoIdle
    /\ UNCHANGED <<cwd, tmpdirs, created>>

SandboxIdle ==
    /\ cwd = Dir("home")
    /\ tmpdirs = {}
    /\ created = 0
    /\ lao = LaoIdle

SandboxInit ==
    /\ cwd \in WorkDirs
    /\ tmpdirs = {}
    /\ created = 0
    /\ lao = LaoIdle

\* ========================================================================
\* accept/commands.py: exp --json and the report file
\* ========================================================================
\* A DIR argument: its parent path and its last component.
ExpDirs == {[parent |-> "a", base |-> "sobel"], [parent |-> "b", base |-> "sobel"],
            [parent |-> "a", base |-> "x264"]}

\* os.path.basename(appdir)
Basename(appdir) == appdir.base

AppNames == {Basename(d) : d \in ExpDirs}
Keys == {"time", "config"}
Metrics == {1, 2}

\* A dict over Keys: each key absent (None) or holding Some(value).
Dicts == [Keys -> {None} \cup {Some(v) : v \in Metrics}]
EmptyDict == [k \in Keys |-> None]

\* What experiments.evaluate returns with as_json: a dict that always has 'time'.
EvalResults == {d \in Dicts : d["time"] # None}

\* The loaded report: for each benchmark name, no entry or its dict.
NoEntry == [has |-> FALSE, kv |-> EmptyDict]
EmptyReport == [a \in AppNames |-> NoEntry]

\* The report file: missing (open raises IOError) or holding a report.
NoFile == [exists |-> FALSE, data |-> EmptyReport]

\* del res['time']
DelTime(res) == [res EXCEPT !["time"] = None]

\* The entry replaced by res instead of updated.
UpdateOverwrite(d, res) == res

\* d.update(res): res's keys win, d's other keys stay.
Update(d, res) == [k \in Keys |-> IF res[k] # None THEN res[k] ELSE d[k]]

\* One iteration of the loop over appdirs with as_json: the result merged into
\* results_json under the benchmark's name.
MergeOne(results_json, appdir, res, include_time) ==
    LET appname == Basename(appdir)
        kept == IF include_time THEN res ELSE DelTime(res)
        entry == IF results_json[appname].has THEN results_json[appname].kv ELSE EmptyDict
    IN  [results_json EXCEPT ![appname] = [has |-> TRUE, kv |-> Update(entry, kept)]]

NoExp ==
    [pc |-> "idle", as_json |-> FALSE, include_time |-> FALSE, iters |-> 0,
     results_json |-> EmptyReport, before |-> NoFile, named |-> {},
     produced |-> [a \in AppNames |-> EmptyDict]]

\* exp starts: with --json the report is loaded, {} when the file is missing.
\* (lastExp also keeps the report as it was, and what the iterations produce.)
ExpBegin(as_json, include_time) ==
    /\ lastExp.pc = "idle"
    /\ lastExp' = [NoExp EXCEPT !.pc = "loop", !.as_json = as_json,
                                !.include_time = include_time, !.before = report,
                                !.results_json = IF as_json /\ report.exists
                                                 THEN report.data ELSE EmptyReport]
    /\ UNCHANGED report

\* One iteration of `for appdir in appdirs`: the benchmark is evaluated; with --json
\* its result is merged into results_json and the report is dumped.
ExpIter(appdir, res) ==
    /\ lastExp.pc = "loop"
    /\ lastExp.iters < MaxAppDirs
    /\ IF lastExp.as_json
       THEN LET merged == MergeOne(lastExp.results_json, appdir, res, lastExp.include_time)
                a == Basename(appdir)
            IN  /\ report' = [exists |-> TRUE, data |-> merged]
                /\ lastExp' = [lastExp EXCEPT
                        !.iters = @ + 1,
                        !.results_json = merged,
                        !.named = @ \cup {a},
                        !.produced[a] = [k \in Keys |->
                            IF res[k] # None /\ (k = "time" => lastExp.include_time)
                            THEN res[k] ELSE @[k]]]
       ELSE /\ lastExp' = [lastExp EXCEPT !.iters = @ + 1]
            /\ UNCHANGED report

\* The loop is over, or experiments.evaluate raised: the command ends.
ExpFinish ==
    /\ lastExp.pc = "loop"
    /\ lastExp' = [lastExp EXCEPT !.pc = "idle"]
    /\ UNCHANGED report

ReportIdle ==
    /\ report = NoFile
    /\ lastExp = NoExp

InitScore == ScoreInit /\ CliIdle /\ MemoIdle /\ SandboxIdle /\ ReportIdle

NextScore == ScoreStep \/ ClassifyStep

SpecScore == InitScore /\ [][NextScore]_vars

\* ------------------------------------------------------------------------
\* The command line alone: every combination of the global options.
\* ------------------------------------------------------------------------
InitCli == ScoreIdle /\ CliIdle /\ MemoIdle /\ SandboxIdle /\ ReportIdle

CliAny ==
    /\ \E cluster \in BOOLEAN, force \in BOOLEAN, keep \in BOOLEAN,
          reps \in RepsVals, test_reps \in TestRepsVals :
            Cli(cluster, force, reps, test_reps, keep)
    /\ UNCHANGED <<scoreVars, memoVars, sandboxVars, reportVars>>

EndRunCli == EndRun /\ UNCHANGED <<scoreVars, memoVars, sandboxVars, reportVars>>

NextCli == CliAny \/ EndRunCli

SpecCli == InitCli /\ [][NextCli]_vars

\* ------------------------------------------------------------------------
\* The driver: runs of the commands over one persistent Memo Store
\* ------------------------------------------------------------------------
Init == ScoreIdle /\ CliIdle /\ MemoIdle /\ SandboxIdle /\ ReportIdle

\* What the runs of the driver leave alone.
Rest == <<scoreVars, sandboxVars, reportVars>>

CliRun ==
    /\ \E cluster \in BOOLEAN, force \in BOOLEAN, keep \in BOOLEAN :
            Cli(cluster, force, 1, None, keep)
    /\ UNCHANGED <<scoreVars, memoVars, sandboxVars, reportVars>>

Worker == \E fp \in Fingerprints : Execute(fp) /\ UNCHANGED <<Rest, cliVars>>

Next ==
    \/ CliRun
    \/ (\E c \in LogCmds \cup EvalCmds : CmdEnter(c)) /\ UNCHANGED Rest
    \/ ExpStart /\ UNCHANGED Rest
    \/ LogCmdSubmit /\ UNCHANGED Rest
    \/ LogCmdGet /\ UNCHANGED Rest
    \/ (\E j \in EvalJobs : EvalSubmit(j)) /\ UNCHANGED Rest
    \/ (\E j \in EvalJobs : EvalGet(j)) /\ UNCHANGED Rest
    \/ Worker
    \/ CmdExit /\ UNCHANGED Rest
    \/ ExpEnd /\ UNCHANGED Rest

Spec == Init /\ [][Next]_vars

\* ------------------------------------------------------------------------
\* The memo client under the Evaluator alone: runs of `run`, each with or without
\* --force, over one persistent Memo Store.  (The local backend is taken: every
\* behaviour of the cluster backend, which only queues, is one of its behaviours.)
\* ------------------------------------------------------------------------
CliClient ==
    /\ \E force \in BOOLEAN : Cli(FALSE, force, 1, None, FALSE)
    /\ UNCHANGED <<scoreVars, memoVars, sandboxVars, reportVars>>

RunEnter == CmdEnter("run") /\ UNCHANGED Rest

RunSubmit == (\E j \in EvalJobs : EvalSubmit(j)) /\ UNCHANGED Rest

RunGet == (\E j \in EvalJobs : EvalGet(j)) /\ UNCHANGED Rest

RunExit == CmdExit /\ UNCHANGED Rest

NextClient == CliClient \/ RunEnter \/ RunSubmit \/ RunGet \/ Worker \/ RunExit

SpecClient == Init /\ [][NextClient]_vars

\* ------------------------------------------------------------------------
\* Properties of the memo client and of the commands, over the calls made
\* ------------------------------------------------------------------------
Indices == [i \in 1..Len(hist) |-> i]

\* The calls naming job j, in order: all of them, and those of run e.
OpsOf(j) == LET Test(i) == hist[i].job = j IN SelectSeq(Indices, Test)
OpsIn(j, e) == LET Test(i) == hist[i].job = j /\ hist[i].epoch = e IN SelectSeq(Indices, Test)

Epochs == 1..MaxRuns

\* C1: with force off, submit(J) then get(J) performed twice in sequence, from a store
\* without a record for J, invokes the underlying callable exactly once, and the second
\* get returns the value of the first; and a get of a fingerprint that an earlier get
\* recorded, with no forced call for it in between, returns the recorded value
\* without another invocation.
C1_MemoIdempotence ==
    \A j \in Jobs :
        LET E == OpsOf(j) IN
        /\ ( /\ Len(E) >= 4
             /\ \A k \in 1..4 : ~hist[E[k]].force
             /\ hist[E[1]].op = "submit" /\ hist[E[2]].op = "get"
             /\ hist[E[3]].op = "submit" /\ hist[E[4]].op = "get"
             /\ hist[E[1]].epoch = hist[E[2]].epoch
             /\ hist[E[3]].epoch = hist[E[4]].epoch )
           => /\ hist[E[4]].inv = 1
              /\ hist[E[4]].res = hist[E[2]].res
        /\ \A a \in 1..Len(E), b \in 1..Len(E) :
             ( /\ a < b
               /\ hist[E[a]].op = "get" /\ hist[E[b]].op = "get"
               /\ \A k \in (a + 1)..b : ~hist[E[k]].force )
             => /\ hist[E[b]].res = hist[E[a]].res
                /\ hist[E[b]].inv = hist[E[a]].inv

\* submit(J), get(J), submit(J), get(J) were performed with force off.
C1_Witness ==
    \E j \in Jobs :
        LET E == OpsOf(j) IN
        /\ Len(E) = 4
        /\ \A k \in 1..4 : ~hist[E[k]].force
        /\ hist[E[1]].op = "submit" /\ hist[E[2]].op = "get"
        /\ hist[E[3]].op = "submit" /\ hist[E[4]].op = "get"
        /\ hist[E[1]].epoch = hist[E[2]].epoch
        /\ hist[E[3]].epoch = hist[E[4]].epoch
        /\ hist[E[1]].epoch # hist[E[3]].epoch

\* The calls naming j in run e, up to the p-th, are submit, get, submit, get, ...
Alternating(E, p) ==
    \A q \in 1..p : hist[E[q]].op = (IF q % 2 = 1 THEN "submit" ELSE "get")

\* C2: with --force, every submit+get of a job triggers a fresh invocation of the
\* underlying callable even if the store holds a record for its fingerprint, the new
\* result overwrites the record, and two successive submit+get calls for the same job
\* yield two invocations.
C2_ForceInvalidation ==
    /\ \A j \in Jobs, e \in Epochs :
         LET E == OpsIn(j, e) IN
         \A p \in 1..Len(E) :
            (p % 2 = 0 /\ hist[E[p]].force /\ Alternating(E, p))
            => /\ hist[E[p]].inv = hist[E[p - 1]].inv + 1
               /\ hist[E[p]].inv = hist[E[1]].inv + (p \div 2)
    /\ (Len(hist) > 0 /\ hist[Len(hist)].op = "get" /\ hist[Len(hist)].force)
        => memo[Fingerprint(hist[Len(hist)].job)] = Some(hist[Len(hist)].res)

\* Under --force a job was submitted and got twice in one run, the second time with
\* the record of the first in the store.
C2_Witness ==
    \E j \in Jobs :
        LET E == OpsIn(j, epoch) IN
        /\ Len(E) = 4
        /\ Alternating(E, 4)
        /\ hist[E[4]].force
        /\ memo[Fingerprint(j)] = Some(hist[E[4]].res)

\* C3: within one client scope, N >= 1 submit calls for jobs sharing a fingerprint,
\* issued before any get, start exactly one underlying execution (the store holding no
\* usable record), and the get calls that match them all observe its result.
C3_AtMostOneInFlight ==
    \A j \in Jobs, e \in Epochs :
        LET E == OpsIn(j, e) IN
        \A n \in 1..Len(E), m \in 1..Len(E) :
            ( /\ m <= n
              /\ n + m <= Len(E)
              /\ \A q \in 1..n : hist[E[q]].op = "submit"
              /\ \A q \in (n + 1)..(n + m) : hist[E[q]].op = "get" )
            => /\ \A q \in (n + 1)..(n + m) : hist[E[q]].res = hist[E[n + 1]].res
               /\ ( hist[E[1]].force
                    \/ \A i \in 1..E[1] : ~(hist[i].job = j /\ hist[i].op = "get") )
                  => hist[E[n + m]].inv = hist[E[1]].inv + 1

\* Two submits of one job, then two gets of it, in one run.
C3_Witness ==
    \E j \in Jobs :
        LET E == OpsIn(j, epoch) IN
        /\ Len(E) = 4
        /\ hist[E[1]].op = "submit" /\ hist[E[2]].op = "submit"
        /\ hist[E[3]].op = "get" /\ hist[E[4]].op = "get"

C5_ScopedExceptExp ==
    /\ \A i \in 1..Len(hist) : hist[i].cmd # "exp" => hist[i].scoped
    /\ pc = "idle" => ~scope

\* The invocations of log_and_output for directory d, whatever keep= was passed.
LogInvocations(d) ==
    invocations[<<"log_and_output", d, "unset">>]
    + invocations[<<"log_and_output", d, "False">>]
    + invocations[<<"log_and_output", d, "True">>]

\* C9: in build and in log the get call names the same job as the submit call before
\* it, so that from an empty store with force off, `build` and then `log` for the same
\* appdir and keep-sandboxes setting execute log_and_output exactly once in total, and
\* both gets return the result of that execution.
C9_SameMemoizedCompilation ==
    /\ \A i \in 1..Len(hist) :
         (i > 1 /\ hist[i].cmd \in LogCmds /\ hist[i].op = "get")
         => hist[i].job = hist[i - 1].job
    /\ ( /\ Len(hist) = 4
         /\ pc = "idle"
         /\ hist[1].cmd = "build" /\ hist[2].cmd = "build"
         /\ hist[3].cmd = "log" /\ hist[4].cmd = "log"
         /\ \A i \in 1..4 : ~hist[i].force
         /\ hist[1].job = hist[3].job )
       => /\ LogInvocations(hist[1].job.dir) = 1
          /\ hist[4].res = hist[2].res

\* The second half of C9 alone.
C9_BuildThenLogOnce ==
    ( /\ Len(hist) = 4
      /\ pc = "idle"
      /\ hist[1].cmd = "build" /\ hist[2].cmd = "build"
      /\ hist[3].cmd = "log" /\ hist[4].cmd = "log"
      /\ \A i \in 1..4 : ~hist[i].force
      /\ hist[1].job = hist[3].job )
    => /\ LogInvocations(hist[1].job.dir) = 1
       /\ hist[4].res = hist[2].res

\* ------------------------------------------------------------------------
\* log_and_output alone: calls from either working directory
\* ------------------------------------------------------------------------
InitSandbox == ScoreIdle /\ CliIdle /\ MemoIdle /\ SandboxInit /\ ReportIdle

Others == <<scoreVars, cliVars, memoVars, reportVars>>

NextSandbox ==
    \/ (\E d \in CallDirs, keep \in BOOLEAN, stale \in BOOLEAN : LaoEnter(d, keep, stale))
            /\ UNCHANGED Others
    \/ LaoRemoveLog /\ UNCHANGED Others
    \/ (\E o \in Outputs, t \in LogTexts : LaoBuild(o, t)) /\ UNCHANGED Others
    \/ LaoBuildRaises /\ UNCHANGED Others
    \/ LaoReturn /\ UNCHANGED Others
    \/ LaoDone /\ UNCHANGED Others

SpecSandbox == InitSandbox /\ [][NextSandbox]_vars

\* C4: once log_and_output has returned or raised, the working directory is the one
\* that was current before the call, and the temporary sandbox directory of the call
\* no longer exists unless keep was requested, in which case it still exists.
C4_SandboxCleanup ==
    lao.pc \in {"returned", "raised"} =>
        /\ cwd = lao.before
        /\ lao.sb # 0 => (lao.sb \in tmpdirs <=> lao.keep)

\* The build raised inside a sandbox that was not to be kept.
C4_Witness ==
    /\ lao.pc = "raised"
    /\ lao.sb # 0
    /\ ~lao.keep
    /\ lao.sb \notin tmpdirs
    /\ cwd = lao.before

\* ------------------------------------------------------------------------
\* exp alone: invocations one after another over one report file
\* ------------------------------------------------------------------------
InitReport == ScoreIdle /\ CliIdle /\ MemoIdle /\ SandboxIdle /\ ReportIdle

NextReport ==
    \/ (\E as_json \in BOOLEAN, include_time \in BOOLEAN : ExpBegin(as_json, include_time))
            /\ UNCHANGED <<scoreVars, cliVars, memoVars, sandboxVars>>
    \/ (\E appdir \in ExpDirs, res \in EvalResults : ExpIter(appdir, res))
            /\ UNCHANGED <<scoreVars, cliVars, memoVars, sandboxVars>>
    \/ ExpFinish /\ UNCHANGED <<scoreVars, cliVars, memoVars, sandboxVars>>

SpecReport == InitReport /\ [][NextReport]_vars

\* The report as it was before the latest invocation ({} for a missing file).
Before(a) == IF lastExp.before.exists THEN lastExp.before.data[a] ELSE NoEntry

\* C7: during and after an `exp --json` invocation the persisted report holds, for
\* every benchmark named so far, every key recorded earlier that the invocation did not
\* produce again, unchanged, and for every key the invocation produced for that
\* benchmark its newest value; the entries of benchmarks not named are unchanged.
C7_ReportMerge ==
    (lastExp.as_json /\ lastExp.iters > 0) =>
        /\ report.exists
        /\ \A a \in AppNames :
             IF a \in lastExp.named
             THEN /\ report.data[a].has
                  /\ \A k \in Keys :
                       IF lastExp.produced[a][k] # None
                       THEN report.data[a].kv[k] = lastExp.produced[a][k]
                       ELSE report.data[a].kv[k] = Before(a).kv[k]
             ELSE report.data[a] = Before(a)

\* Without --json the report is left as it was.
C7_NoJsonNoChange == ~lastExp.as_json => report = lastExp.before

\* A later invocation kept a key of an earlier one, replaced the value of another,
\* and left the other benchmark's entry alone.
C7_Witness ==
    /\ lastExp.as_json
    /\ lastExp.pc = "idle"
    /\ lastExp.iters > 0
    /\ lastExp.before.exists
    /\ \E a \in AppNames, b \in AppNames :
         /\ a # b
         /\ a \in lastExp.named
         /\ b \notin lastExp.named
         /\ Before(b).has
         /\ report.data[b] = Before(b)
         /\ Before(a).has
         /\ Before(a).kv["time"] # None
         /\ lastExp.produced[a]["time"] = None
         /\ report.data[a].kv["time"] = Before(a).kv["time"]
         /\ Before(a).kv["config"] # None
         /\ lastExp.produced[a]["config"] # None
         /\ report.data[a].kv["config"] # Before(a).kv["config"]

\* C6: the test replication factor stored in the global configuration equals the
\* value given with --test-reps whenever that option is given (for every integer
\* value), and equals the search replication factor (--reps) when it is not given.
C6_TestRepsDefault ==
    cfg.set =>
        /\ (opts.test_reps # None => cfg.test_reps = opts.test_reps[1])
        /\ (opts.test_reps = None => cfg.test_reps = opts.reps)

\* What does hold: a given value other than 0 is stored, and reps otherwise.
C6_TestRepsNonZero ==
    cfg.set =>
        /\ (opts.test_reps # None /\ opts.test_reps[1] # 0
                => cfg.test_reps = opts.test_reps[1])
        /\ (opts.test_reps = None \/ opts.test_reps = Some(0)
                => cfg.test_reps = opts.reps)

\* ------------------------------------------------------------------------
\* Properties of the scorer
\* ------------------------------------------------------------------------
\* The claimed scorer, written over the positions of the baseline:
\* the sum over i in 1..len(orig) of min(|orig[i] - relaxed[i]|, 1.0).
RECURSIVE MeanNumerator(_, _, _)
MeanNumerator(o, r, n) ==
    IF n = 0 THEN 0
    ELSE MeanNumerator(o, r, n - 1)
         + (IF Abs(o[n] - r[n]) <= CapHundredths THEN Abs(o[n] - r[n]) ELSE CapHundredths)

\* C8: with score = mean over the baseline's outputs of min(|orig[i] - relaxed[i]|, 1.0)
\* and the rule deviation <= T is good, otherwise bad: a classified configuration
\* whose outputs pair up with the baseline's has that mean as its score, is good when
\* the mean is below T, good when the computed deviation is exactly T, bad when the
\* mean is above T, and for the baseline [1.0, 1.0, 1.0] with T = 0.05 the outputs
\* [1.02, 0.98, 1.01] are good and [1.2, 0.8, 1.1] are bad.
C8_ClassificationByDeviation ==
    (desc # "" /\ Len(relaxed) = Len(orig)) =>
        /\ scored.num = MeanNumerator(orig, relaxed, Len(orig))
        /\ scored.den = Len(orig)
        /\ (MeanNumerator(orig, relaxed, Len(orig)) = tol * Len(orig) /\ scored.rnd = 0
                => desc = "good")
        /\ (MeanNumerator(orig, relaxed, Len(orig)) < tol * Len(orig) => desc = "good")
        /\ (MeanNumerator(orig, relaxed, Len(orig)) > tol * Len(orig) => desc = "bad")
        /\ (orig = <<100, 100, 100>> /\ tol = 5 /\ relaxed = <<102, 98, 101>>
                => desc = "good")
        /\ (orig = <<100, 100, 100>> /\ tol = 5 /\ relaxed = <<120, 80, 110>>
                => desc = "bad")

\* A configuration whose deviation is exactly T has been classified.
C8_Witness ==
    /\ desc = "good"
    /\ tol = 5
    /\ orig = <<0>>
    /\ relaxed = <<5>>
    /\ scored.num = tol * scored.den
    /\ scored.rnd = 0

\* The two scenarios of the claim have been classified.
C8_ScenarioGood == desc # "" /\ orig = <<100, 100, 100>> /\ relaxed = <<102, 98, 101>>
C8_ScenarioBad == desc # "" /\ orig = <<100, 100, 100>> /\ relaxed = <<120, 80, 110>>

\* C10: score(orig, relaxed) for a non-empty orig lies between 0 and 1 inclusive and
\* is 0 only if relaxed has, at every position of orig, an element equal to orig's;
\* in particular a relaxed output with fewer elements than orig never scores 0.
C10_ScoreZeroOnlyIfEqual ==
    (scored.st # "none" /\ Len(orig) > 0) =>
        /\ scored.st = "ok"
        /\ 0 <= scored.num
        /\ scored.num <= CapHundredths * scored.den
        /\ (scored.num = 0 =>
                /\ Len(relaxed) >= Len(orig)
                /\ \A i \in 1..Len(orig) : relaxed[i] = orig[i])

\* The part of C10 that does hold: the score of a non-empty orig is within [0, 1].
C10_ScoreInRange ==
    (scored.st # "none" /\ Len(orig) > 0) =>
        /\ scored.st = "ok"
        /\ 0 <= scored.num
        /\ scored.num <= CapHundredths * scored.den

====
